---- MODULE Spec2Model ----
(***************************************************************************)
(* Model of InventoryUnitConverter (src/src/InventoryUnitConverter.js).    *)
(*                                                                         *)
(* Quantities are JavaScript numbers in the source.  Here a quantity is an *)
(* integer count of thousandths (1.005 is 1005), and the arithmetic of     *)
(* convertUnit is carried out exactly on those integers.  Absent or falsy  *)
(* item fields (undefined, null, "", 0) are the values "" and 0; a null    *)
(* element of an items array is NullItem.  A call's outcome is a record    *)
(* with threw = FALSE and the returned value, or threw = TRUE and the      *)
(* message of the Error that reached the caller.                           *)
(***************************************************************************)
EXTENDS Integers, Sequences, FiniteSets, TLC

VARIABLES
  conversionRules,  \* this.conversionRules: NullTable or the loaded document
  isRunning,        \* this.isRunning
  fileWatcher,      \* this.fileWatcher is set
  webServer,        \* this.webServer is set
  pc,               \* where an initialize() or stop() in progress stands
  masterFile,       \* what is at config.conversionMasterPath
  loads,            \* the loadConversionMaster calls in flight
  files,            \* the processInventoryFile calls in flight
  call              \* the call that just completed, as its caller sees it

vars == <<conversionRules, isRunning, fileWatcher, webServer, pc, masterFile,
          loads, files, call>>

(***************************************************************************)
(* Bounds.                                                                 *)
(***************************************************************************)
\* Longest items array handed to processInventoryData / convertUnits.
MaxItems == 2
\* Number of loadConversionMaster calls that may be in flight at once.
MaxLoads == 2
\* Number of processInventoryFile calls that may be in flight at once.
MaxFiles == 1

(***************************************************************************)
(* Values.                                                                 *)
(***************************************************************************)
\* this.conversionRules = null (constructor).
NullTable == [null |-> TRUE]
\* A null element of an items array, and a null request body.
NullItem == [null |-> TRUE]
NullData == [null |-> TRUE]
\* No conversion master file at conversionMasterPath.
NoFile == [missing |-> TRUE]

Range(s) == {s[i] : i \in 1..Len(s)}

Rule(d, p) == [default |-> d, products |-> p]

NoProducts == [s \in {} |-> 0]

\* The conversion master of the test suite: three units, a rule for every
\* ordered pair, per-product overrides (SKU001: 10 per box, 40 per carton;
\* SKU002: 24 per box, 8 boxes per carton, 192 per carton; default 12).
DocA ==
  [version |-> "1.0.0",
   supportedUnits |-> <<"PIECE", "BOX", "CARTON">>,
   unitHierarchy |-> <<"PIECE", "BOX", "CARTON">>,
   conversionRules |->
     ("PIECE_TO_BOX" :> Rule(12, ("SKU001" :> 10 @@ "SKU002" :> 24)) @@
      "BOX_TO_PIECE" :> Rule(12, ("SKU001" :> 10 @@ "SKU002" :> 24)) @@
      "BOX_TO_CARTON" :> Rule(8, ("SKU001" :> 4 @@ "SKU002" :> 8)) @@
      "CARTON_TO_BOX" :> Rule(8, ("SKU001" :> 4 @@ "SKU002" :> 8)) @@
      "PIECE_TO_CARTON" :> Rule(96, ("SKU001" :> 40 @@ "SKU002" :> 192)) @@
      "CARTON_TO_PIECE" :> Rule(96, ("SKU001" :> 40 @@ "SKU002" :> 192)))]

\* A later version: supportedUnits listed in another order than the
\* hierarchy, other factors, and a product entry whose factor is 0.
DocB ==
  [version |-> "2.0.0",
   supportedUnits |-> <<"CARTON", "BOX", "PIECE">>,
   unitHierarchy |-> <<"PIECE", "BOX", "CARTON">>,
   conversionRules |->
     ("PIECE_TO_BOX" :> Rule(8, ("SKU001" :> 0 @@ "SKU002" :> 6)) @@
      "BOX_TO_PIECE" :> Rule(8, ("SKU001" :> 3 @@ "SKU002" :> 6)) @@
      "BOX_TO_CARTON" :> Rule(7, NoProducts) @@
      "CARTON_TO_BOX" :> Rule(7, NoProducts) @@
      "PIECE_TO_CARTON" :> Rule(56, ("SKU002" :> 0)) @@
      "CARTON_TO_PIECE" :> Rule(56, ("SKU001" :> 0)))]

\* A sparse table: PIECE_TO_BOX and BOX_TO_CARTON but no PIECE_TO_CARTON,
\* BOX_TO_PIECE but no CARTON_TO_BOX, and a unit (PALLET) that has rules
\* but no place in unitHierarchy.
DocC ==
  [version |-> "3.0.0",
   supportedUnits |-> <<"PIECE", "BOX", "CARTON", "PALLET">>,
   unitHierarchy |-> <<"PIECE", "BOX", "CARTON">>,
   conversionRules |->
     ("PIECE_TO_BOX" :> Rule(12, ("SKU001" :> 10)) @@
      "BOX_TO_PIECE" :> Rule(12, ("SKU001" :> 10)) @@
      "BOX_TO_CARTON" :> Rule(8, NoProducts) @@
      "PIECE_TO_PALLET" :> Rule(1000, NoProducts) @@
      "PALLET_TO_PIECE" :> Rule(1000, ("SKU001" :> 800)) @@
      "PALLET_TO_CARTON" :> Rule(20, NoProducts) @@
      "PALLET_TO_CRATE" :> Rule(5, NoProducts))]

\* The documents the master file may hold.
MasterDocs == {DocA, DocB, DocC}

Units == {"PIECE", "BOX", "CARTON", "PALLET", "CRATE", "BOGUS"}

\* "" is "no sku given" (the parameter's default null, or a missing field).
Skus == {"", "SKU001", "SKU002", "UNKNOWN_SKU"}

\* Thousandths: 0, 1, 12, 24, 100, 120, -1, -5, 1.005, 0.125, 2.5.
Quantities == {0, 1000, 12000, 24000, 100000, 120000, -1000, -5000, 1005, 125, 2500}

(***************************************************************************)
(* Outcomes of a call.                                                     *)
(***************************************************************************)
Return(v) == [threw |-> FALSE, value |-> v]

Throw(msg) == [threw |-> TRUE, error |-> msg]

NullRead(prop) == "Cannot read properties of null (reading '" \o prop \o "')"

(***************************************************************************)
(* convertUnit.                                                            *)
(***************************************************************************)
\* Math.round(n / d) for d > 0: the integer nearest n/d, a tie going to the
\* larger integer (floor(x + 1/2)).
MathRound(n, d) == (2 * n + d) \div (2 * d)

\* indexOf with an absent unit ranked after every unit of the hierarchy.
indexOfOrLength(hierarchy, u) ==
  IF \E i \in 1..Len(hierarchy) : hierarchy[i] = u
  THEN (CHOOSE i \in 1..Len(hierarchy) :
          hierarchy[i] = u /\ \A j \in 1..(i - 1) : hierarchy[j] # u) - 1
  ELSE Len(hierarchy)

\* Array.prototype.indexOf, zero-based, -1 when absent.
indexOf(hierarchy, u) ==
  IF \E i \in 1..Len(hierarchy) : hierarchy[i] = u
  THEN (CHOOSE i \in 1..Len(hierarchy) :
          hierarchy[i] = u /\ \A j \in 1..(i - 1) : hierarchy[j] # u) - 1
  ELSE -1

conversionKey(fromUnit, toUnit) == fromUnit \o "_TO_" \o toUnit

\* const rules = this.conversionRules.conversionRules[conversionKey]:
\* <<the rule>>, or <<>> for undefined.
lookupRuleOrReverse(rules, fromUnit, toUnit) ==
  IF conversionKey(fromUnit, toUnit) \in DOMAIN rules.conversionRules
  THEN <<rules.conversionRules[conversionKey(fromUnit, toUnit)]>>
  ELSE IF conversionKey(toUnit, fromUnit) \in DOMAIN rules.conversionRules
  THEN <<rules.conversionRules[conversionKey(toUnit, fromUnit)]>>
  ELSE <<>>

lookupRule(rules, fromUnit, toUnit) ==
  IF conversionKey(fromUnit, toUnit) \in DOMAIN rules.conversionRules
  THEN <<rules.conversionRules[conversionKey(fromUnit, toUnit)]>>
  ELSE <<>>

\* (sku && rules.products[sku]) ? rules.products[sku] : rules.default
conversionFactor(rule, sku) ==
  IF sku # "" /\ sku \in DOMAIN rule.products /\ rule.products[sku] # 0
  THEN rule.products[sku]
  ELSE rule.default

\* The direction test with the multiplying branch never taken.
alwaysDividing(hierarchy, fromUnit, toUnit) == TRUE

\* fromIndex < toIndex: divide, otherwise multiply.
dividing(hierarchy, fromUnit, toUnit) ==
  indexOf(hierarchy, fromUnit) < indexOf(hierarchy, toUnit)

\* Math.round(result * 100) / 100, in thousandths, for result = q / f.
roundedQuotient(quantity, factor) == 10 * MathRound(quantity, 10 * factor)

\* Math.round(result * 100) / 100, in thousandths, for result = q * f.
roundedProduct(quantity, factor) == 10 * MathRound(quantity * factor, 10)

\* convertUnit without the fromUnit === toUnit short-circuit.
convertUnitAlwaysLooksUp(rules, quantity, fromUnit, toUnit, sku) ==
  IF rules = NullTable THEN Throw(NullRead("conversionRules"))
  ELSE IF lookupRule(rules, fromUnit, toUnit) = <<>>
  THEN Throw("No conversion rule found for " \o fromUnit \o " to " \o toUnit)
  ELSE LET rule == lookupRule(rules, fromUnit, toUnit)[1]
           factor == conversionFactor(rule, sku)
       IN  IF dividing(rules.unitHierarchy, fromUnit, toUnit)
           THEN Return(roundedQuotient(quantity, factor))
           ELSE Return(roundedProduct(quantity, factor))

\* convertUnit with the direction taken from supportedUnits.
convertUnitBySupportedOrder(rules, quantity, fromUnit, toUnit, sku) ==
  IF fromUnit = toUnit THEN Return(quantity)
  ELSE IF rules = NullTable THEN Throw(NullRead("conversionRules"))
  ELSE IF lookupRule(rules, fromUnit, toUnit) = <<>>
  THEN Throw("No conversion rule found for " \o fromUnit \o " to " \o toUnit)
  ELSE LET rule == lookupRule(rules, fromUnit, toUnit)[1]
           factor == conversionFactor(rule, sku)
       IN  IF dividing(rules.supportedUnits, fromUnit, toUnit)
           THEN Return(roundedQuotient(quantity, factor))
           ELSE Return(roundedProduct(quantity, factor))

convertUnit(rules, quantity, fromUnit, toUnit, sku) ==
  IF fromUnit = toUnit THEN Return(quantity)
  ELSE IF rules = NullTable THEN Throw(NullRead("conversionRules"))
  ELSE IF lookupRule(rules, fromUnit, toUnit) = <<>>
  THEN Throw("No conversion rule found for " \o fromUnit \o " to " \o toUnit)
  ELSE LET rule == lookupRule(rules, fromUnit, toUnit)[1]
           factor == conversionFactor(rule, sku)
       IN  IF dividing(rules.unitHierarchy, fromUnit, toUnit)
           THEN Return(roundedQuotient(quantity, factor))
           ELSE Return(roundedProduct(quantity, factor))

(***************************************************************************)
(* standardizeItem.                                                        *)
(***************************************************************************)
Item(sku, name, quantity, unit) ==
  [sku |-> sku, name |-> name, quantity |-> quantity, unit |-> unit]

\* { ...item, error: msg }
ErrorRecord(item, msg) ==
  [sku |-> item.sku, name |-> item.name, quantity |-> item.quantity,
   unit |-> item.unit, error |-> msg]

\* { ...rest, sku, originalQuantity, originalUnit, standardizedUnits }
\* (convertedAt, the wall-clock time of the call, is left out).
StandardizedItem(item, conversions) ==
  [sku |-> item.sku, name |-> item.name, originalQuantity |-> item.quantity,
   originalUnit |-> item.unit, standardizedUnits |-> conversions]

\* const conversions = {}
NoConversions == [u \in {} |-> 0]

\* conversions[targetUnit] = v
assign(conversions, targetUnit, v) == (targetUnit :> v) @@ conversions

\* The loop with a failing unit skipped instead of ending the loop.
RECURSIVE standardizeLoopSkipping(_, _, _, _)
standardizeLoopSkipping(rules, item, i, conversions) ==
  IF i > Len(rules.supportedUnits) THEN Return(conversions)
  ELSE LET targetUnit == rules.supportedUnits[i]
           c == IF item.unit = targetUnit
                THEN Return(item.quantity)
                ELSE convertUnit(rules, item.quantity, item.unit, targetUnit,
                                 item.sku)
       IN  IF c.threw
           THEN standardizeLoopSkipping(rules, item, i + 1, conversions)
           ELSE standardizeLoopSkipping(rules, item, i + 1,
                                        assign(conversions, targetUnit, c.value))

\* The for loop over supportedUnits from position i on: the conversions
\* when every unit converts, the first Error otherwise.
RECURSIVE standardizeLoop(_, _, _, _)
standardizeLoop(rules, item, i, conversions) ==
  IF i > Len(rules.supportedUnits) THEN Return(conversions)
  ELSE LET targetUnit == rules.supportedUnits[i]
           c == IF item.unit = targetUnit
                THEN Return(item.quantity)
                ELSE convertUnit(rules, item.quantity, item.unit, targetUnit,
                                 item.sku)
       IN  IF c.threw THEN c
           ELSE standardizeLoop(rules, item, i + 1,
                                assign(conversions, targetUnit, c.value))

\* !sku || !quantity || !unit
missingFields(item) == item.sku = "" \/ item.quantity = 0 \/ item.unit = ""

standardizeItem(rules, item) ==
  IF item = NullItem
  THEN Throw("Cannot destructure property 'sku' of 'item' as it is null.")
  ELSE IF missingFields(item)
  THEN Return(ErrorRecord(item, "Missing required fields: sku, quantity, unit"))
  ELSE IF rules = NullTable
  THEN Return(ErrorRecord(item, NullRead("supportedUnits")))
  ELSE LET r == standardizeLoop(rules, item, 1, NoConversions)
       IN  IF r.threw THEN Return(ErrorRecord(item, r.error))
           ELSE Return(StandardizedItem(item, r.value))

(***************************************************************************)
(* processInventoryData.                                                   *)
(***************************************************************************)
\* A request body or file content: null, or an object with a source and an
\* items field that is an array or is not one (missing, or another value).
Data(source, isArray, items) ==
  [source |-> source, itemsIsArray |-> isArray, items |-> items]

\* data.items.map(item => this.standardizeItem(item)) from position i on:
\* the processed items, or the Error of the first call that throws.
RECURSIVE mapStandardize(_, _, _, _)
mapStandardize(rules, items, i, processed) ==
  IF i > Len(items) THEN Return(processed)
  ELSE LET r == standardizeItem(rules, items[i])
       IN  IF r.threw THEN r
           ELSE mapStandardize(rules, items, i + 1, Append(processed, r.value))

\* conversionVersion: this.conversionRules.version
resultVersion(rules) == rules.version

\* processInventoryData without the check of data and data.items.
processInventoryDataUnchecked(rules, data) ==
  IF data = NullData THEN Throw(NullRead("items"))
  ELSE LET m == mapStandardize(rules, data.items, 1, <<>>)
       IN  IF m.threw THEN m
           ELSE IF rules = NullTable THEN Throw(NullRead("version"))
           ELSE Return([source |-> data.source, items |-> m.value,
                        conversionVersion |-> resultVersion(rules)])

processInventoryData(rules, data) ==
  IF data = NullData \/ ~data.itemsIsArray
  THEN Throw("Invalid inventory data format. Expected { items: [] }")
  ELSE LET m == mapStandardize(rules, data.items, 1, <<>>)
       IN  IF m.threw THEN m
           ELSE IF rules = NullTable THEN Throw(NullRead("version"))
           ELSE Return([source |-> data.source, items |-> m.value,
                        conversionVersion |-> resultVersion(rules)])

(***************************************************************************)
(* convertUnits.                                                           *)
(***************************************************************************)
\* { ...item, convertedQuantity, convertedUnit, conversionFactor }.  The
\* factor converted / item.quantity is kept as the pair of its operands
\* (a zero quantity gives a non-finite number in the source).
ConvertedItem(item, converted, targetUnit) ==
  [sku |-> item.sku, name |-> item.name, quantity |-> item.quantity,
   unit |-> item.unit, convertedQuantity |-> converted,
   convertedUnit |-> targetUnit,
   conversionFactor |-> <<converted, item.quantity>>]

\* The map with a failing item left out instead of ending the call.
RECURSIVE mapConvertIsolating(_, _, _, _, _)
mapConvertIsolating(rules, items, targetUnit, i, done) ==
  IF i > Len(items) THEN Return(done)
  ELSE IF items[i] = NullItem
  THEN mapConvertIsolating(rules, items, targetUnit, i + 1, done)
  ELSE LET c == convertUnit(rules, items[i].quantity, items[i].unit,
                            targetUnit, items[i].sku)
       IN  IF c.threw
           THEN mapConvertIsolating(rules, items, targetUnit, i + 1, done)
           ELSE mapConvertIsolating(rules, items, targetUnit, i + 1,
                                    Append(done, ConvertedItem(items[i], c.value,
                                                               targetUnit)))

\* items.map(item => ...) from position i on.
RECURSIVE mapConvert(_, _, _, _, _)
mapConvert(rules, items, targetUnit, i, done) ==
  IF i > Len(items) THEN Return(done)
  ELSE IF items[i] = NullItem THEN Throw(NullRead("quantity"))
  ELSE LET c == convertUnit(rules, items[i].quantity, items[i].unit,
                            targetUnit, items[i].sku)
       IN  IF c.threw THEN c
           ELSE mapConvert(rules, items, targetUnit, i + 1,
                           Append(done, ConvertedItem(items[i], c.value,
                                                      targetUnit)))

convertUnits(rules, items, targetUnit) ==
  mapConvert(rules, items, targetUnit, 1, <<>>)

(***************************************************************************)
(* Inputs.                                                                 *)
(***************************************************************************)
\* Every item a single standardizeItem call is tried on.
Items ==
  {NullItem} \cup
  {Item(s, "Widget", q, u) : s \in Skus, q \in Quantities, u \in Units \cup {""}}

\* The items batches are built from: two that standardize, one without a
\* sku, one with a zero quantity, one whose unit has no rule, a negative
\* quantity, and a null element.
BatchItems ==
  {Item("SKU001", "Widget 1", 120000, "PIECE"),
   Item("SKU002", "Widget 2", 2000, "BOX"),
   Item("", "No sku", 1000, "PIECE"),
   Item("SKU001", "Zero", 0, "PIECE"),
   Item("SKU001", "Bogus", 1000, "BOGUS"),
   Item("UNKNOWN_SKU", "Return", -5000, "CARTON"),
   NullItem}

RECURSIVE SeqsUpTo(_, _)
SeqsUpTo(S, n) ==
  IF n = 0 THEN {<<>>}
  ELSE LET shorter == SeqsUpTo(S, n - 1)
       IN  shorter \cup {Append(s, x) : s \in {t \in shorter : Len(t) = n - 1}, x \in S}

Batches == SeqsUpTo(BatchItems, MaxItems)

\* Request bodies: null, no items field, an items field that is not an
\* array (an object holding an element), and the arrays of Batches.
Datas ==
  {NullData, Data("test-outlet", FALSE, <<>>),
   Data("test-outlet", FALSE, <<NullItem>>),
   Data("test-outlet", FALSE, <<Item("SKU001", "Widget 1", 120000, "PIECE")>>)} \cup
  {Data("test-outlet", TRUE, items) : items \in Batches}

(***************************************************************************)
(* Synchronous entry points.  A call runs to completion: its outcome is in *)
(* call until the caller has taken it (Deliver), and nothing else runs in  *)
(* between.                                                                *)
(***************************************************************************)
NoCall == [op |-> "none"]

agent == <<conversionRules, isRunning, fileWatcher, webServer, pc, masterFile,
           loads, files>>

CallConvertUnit(quantity, fromUnit, toUnit, sku) ==
  /\ call = NoCall
  /\ call' = [op |-> "convertUnit", rules |-> conversionRules,
              quantity |-> quantity, fromUnit |-> fromUnit, toUnit |-> toUnit,
              sku |-> sku,
              out |-> convertUnit(conversionRules, quantity, fromUnit, toUnit, sku)]
  /\ UNCHANGED agent

CallStandardizeItem(item) ==
  /\ call = NoCall
  /\ call' = [op |-> "standardizeItem", rules |-> conversionRules,
              item |-> item, out |-> standardizeItem(conversionRules, item)]
  /\ UNCHANGED agent

CallProcessInventoryData(data) ==
  /\ call = NoCall
  /\ call' = [op |-> "processInventoryData", rules |-> conversionRules,
              data |-> data, out |-> processInventoryData(conversionRules, data)]
  /\ UNCHANGED agent

\* convertUnit there and, when that returns, convertUnit back with the
\* returned quantity: convertUnit(convertUnit(q, A, B, sku), B, A, sku).
CallRoundTrip(quantity, fromUnit, toUnit, sku) ==
  /\ call = NoCall
  /\ LET there == convertUnit(conversionRules, quantity, fromUnit, toUnit, sku)
     IN  call' = [op |-> "roundTrip", rules |-> conversionRules,
                  quantity |-> quantity, fromUnit |-> fromUnit,
                  toUnit |-> toUnit, sku |-> sku, there |-> there,
                  out |-> IF there.threw THEN there
                          ELSE convertUnit(conversionRules, there.value,
                                           toUnit, fromUnit, sku)]
  /\ UNCHANGED agent

CallConvertUnits(items, targetUnit) ==
  /\ call = NoCall
  /\ call' = [op |-> "convertUnits", rules |-> conversionRules,
              items |-> items, targetUnit |-> targetUnit,
              out |-> convertUnits(conversionRules, items, targetUnit)]
  /\ UNCHANGED agent

\* getStatus(): conversionRules?.version and conversionRules?.supportedUnits || []
getStatus(rules, running) ==
  [running |-> running,
   conversionVersion |-> IF rules = NullTable THEN "undefined" ELSE rules.version,
   supportedUnits |-> IF rules = NullTable THEN <<>> ELSE rules.supportedUnits]

CallGetStatus ==
  /\ call = NoCall
  /\ call' = [op |-> "getStatus", rules |-> conversionRules,
              out |-> Return(getStatus(conversionRules, isRunning))]
  /\ UNCHANGED agent

Deliver ==
  /\ call # NoCall
  /\ call' = NoCall
  /\ UNCHANGED agent

(***************************************************************************)
(* The engine alone: a table (or none) is in place and callers use the     *)
(* synchronous entry points.                                               *)
(***************************************************************************)
InitEngine ==
  /\ conversionRules \in {NullTable} \cup MasterDocs
  /\ isRunning = (conversionRules # NullTable)
  /\ fileWatcher = FALSE
  /\ webServer = FALSE
  /\ pc = "idle"
  /\ masterFile = NoFile
  /\ loads = <<>>
  /\ files = <<>>
  /\ call = NoCall

NextEngine ==
  \/ \E q \in Quantities, f \in Units, t \in Units, s \in Skus :
       CallConvertUnit(q, f, t, s)
  \/ \E item \in Items : CallStandardizeItem(item)
  \/ \E data \in Datas : CallProcessInventoryData(data)
  \/ \E items \in Batches, t \in Units : CallConvertUnits(items, t)
  \/ \E q \in Quantities, f \in Units, t \in Units, s \in Skus :
       CallRoundTrip(q, f, t, s)
  \/ Deliver

SpecEngine == InitEngine /\ [][NextEngine]_vars

(***************************************************************************)
(* The agent from construction on: initialize, reloadConversionMaster and  *)
(* stop, the file watcher and the webhook server, and edits of the master  *)
(* file.  An async method is a sequence of steps, one per await; other     *)
(* callbacks run between its steps.                                        *)
(***************************************************************************)
\* A master file that is there but does not parse.
Corrupt == [corrupt |-> TRUE]

\* The documents written to the master file while the agent runs.
ReloadDocs == {DocA, DocB}

\* What the watcher, the webhook and direct callers hand in while the agent
\* runs.
AgentBatches ==
  {<<Item("SKU001", "Widget 1", 120000, "PIECE"),
     Item("SKU002", "Widget 2", 2000, "BOX")>>,
   <<Item("", "No sku", 1000, "PIECE"),
     Item("SKU001", "Widget 1", 120000, "PIECE")>>}

AgentDatas ==
  {NullData} \cup {Data("outlet", TRUE, items) : items \in AgentBatches}

LoadTask(p, caller, masterData) ==
  [pc |-> p, caller |-> caller, masterData |-> masterData]

Remove(seq, i) == SubSeq(seq, 1, i - 1) \o SubSeq(seq, i + 1, Len(seq))

Init ==
  /\ conversionRules = NullTable
  /\ isRunning = FALSE
  /\ fileWatcher = FALSE
  /\ webServer = FALSE
  /\ pc = "idle"
  /\ masterFile \in {NoFile, DocA}
  /\ loads = <<>>
  /\ files = <<>>
  /\ call = NoCall

\* initialize() up to its first await, inside loadConversionMaster.
Initialize ==
  /\ call = NoCall
  /\ pc = "idle" /\ ~fileWatcher /\ ~webServer
  /\ Len(loads) < MaxLoads
  /\ loads' = Append(loads, LoadTask("pathExists", "initialize", NoFile))
  /\ pc' = "loading"
  /\ UNCHANGED <<conversionRules, isRunning, fileWatcher, webServer,
                 masterFile, files, call>>

\* reloadConversionMaster() up to its first await.
Reload ==
  /\ call = NoCall
  /\ Len(loads) < MaxLoads
  /\ loads' = Append(loads, LoadTask("pathExists", "reload", NoFile))
  /\ UNCHANGED <<conversionRules, isRunning, fileWatcher, webServer, pc,
                 masterFile, files, call>>

\* A failing load that also drops the table in place.
LoadFailsClearing(i, msg) ==
  /\ call' = [op |-> "loadConversionMaster", caller |-> loads[i].caller,
              rules |-> conversionRules, out |-> Throw(msg)]
  /\ loads' = Remove(loads, i)
  /\ pc' = IF loads[i].caller = "initialize" THEN "idle" ELSE pc
  /\ conversionRules' = NullTable
  /\ UNCHANGED <<isRunning, fileWatcher, webServer, masterFile, files>>

\* A load that throws: the Error reaches the caller, and initialize()
\* rethrows it to its own caller before anything is set up.
LoadFails(i, msg) ==
  /\ call' = [op |-> "loadConversionMaster", caller |-> loads[i].caller,
              rules |-> conversionRules, out |-> Throw(msg)]
  /\ loads' = Remove(loads, i)
  /\ pc' = IF loads[i].caller = "initialize" THEN "idle" ELSE pc
  /\ UNCHANGED <<conversionRules, isRunning, fileWatcher, webServer,
                 masterFile, files>>

\* await fs.pathExists(path)
LoadPathExists(i) ==
  /\ call = NoCall
  /\ loads[i].pc = "pathExists"
  /\ IF masterFile = NoFile
     THEN LoadFails(i, "Conversion master file not found")
     ELSE /\ loads' = [loads EXCEPT ![i].pc = "readJson"]
          /\ UNCHANGED <<conversionRules, isRunning, fileWatcher, webServer,
                         pc, masterFile, files, call>>

\* await fs.readJson(path): the file is read now, the caller resumes later.
LoadReadJson(i) ==
  /\ call = NoCall
  /\ loads[i].pc = "readJson"
  /\ IF masterFile = NoFile THEN LoadFails(i, "ENOENT: no such file or directory")
     ELSE IF masterFile = Corrupt THEN LoadFails(i, "Unexpected token in JSON")
     ELSE /\ loads' = [loads EXCEPT ![i] = LoadTask("assign", loads[i].caller,
                                                    masterFile)]
          /\ UNCHANGED <<conversionRules, isRunning, fileWatcher, webServer,
                         pc, masterFile, files, call>>

\* A reload that copies the new rules into the table already in place.
loadedFieldByField(current, masterData) ==
  IF current = NullTable THEN masterData
  ELSE [current EXCEPT !.conversionRules = masterData.conversionRules,
                       !.supportedUnits = masterData.supportedUnits]

\* this.conversionRules = masterData
loaded(current, masterData) == masterData

\* The rest of loadConversionMaster, and of the initialize() that awaits it
\* up to its next await.
LoadAssign(i) ==
  /\ call = NoCall
  /\ loads[i].pc = "assign"
  /\ conversionRules' = loaded(conversionRules, loads[i].masterData)
  /\ call' = [op |-> "loadConversionMaster", caller |-> loads[i].caller,
              rules |-> conversionRules', out |-> Return(loads[i].masterData)]
  /\ loads' = Remove(loads, i)
  /\ pc' = IF loads[i].caller = "initialize" THEN "setupFileWatcher" ELSE pc
  /\ UNCHANGED <<isRunning, fileWatcher, webServer, masterFile, files>>

\* setupFileWatcher()
SetupFileWatcher ==
  /\ call = NoCall
  /\ pc = "setupFileWatcher"
  /\ fileWatcher' = TRUE
  /\ pc' = "setupWebhookServer"
  /\ UNCHANGED <<conversionRules, isRunning, webServer, masterFile, loads,
                 files, call>>

\* setupWebhookServer(): app.listen
SetupWebhookServer ==
  /\ call = NoCall
  /\ pc = "setupWebhookServer"
  /\ webServer' = TRUE
  /\ pc' = "initialized"
  /\ UNCHANGED <<conversionRules, isRunning, fileWatcher, masterFile, loads,
                 files, call>>

\* this.isRunning = true; emit('initialized')
Initialized ==
  /\ call = NoCall
  /\ pc = "initialized"
  /\ isRunning' = TRUE
  /\ pc' = "idle"
  /\ UNCHANGED <<conversionRules, fileWatcher, webServer, masterFile, loads,
                 files, call>>

\* stop() up to its first await.
Stop ==
  /\ call = NoCall
  /\ pc = "idle"
  /\ isRunning' = FALSE
  /\ pc' = "closeWatcher"
  /\ UNCHANGED <<conversionRules, fileWatcher, webServer, masterFile, loads,
                 files, call>>

\* await this.fileWatcher.close(); this.fileWatcher = null
StopWatcherClosed ==
  /\ call = NoCall
  /\ pc = "closeWatcher"
  /\ fileWatcher' = FALSE
  /\ pc' = "closeServer"
  /\ UNCHANGED <<conversionRules, isRunning, webServer, masterFile, loads,
                 files, call>>

\* this.webServer.close(resolve); this.webServer = null; emit('stopped')
StopServerClosed ==
  /\ call = NoCall
  /\ pc = "closeServer"
  /\ webServer' = FALSE
  /\ pc' = "idle"
  /\ call' = [op |-> "stop", rules |-> conversionRules,
              out |-> Return(getStatus(conversionRules, isRunning))]
  /\ UNCHANGED <<conversionRules, isRunning, fileWatcher, masterFile, loads,
                 files>>

\* The watcher's 'add' or 'change': processInventoryFile up to its read.
FileEvent ==
  /\ call = NoCall
  /\ fileWatcher
  /\ Len(files) < MaxFiles
  /\ files' = Append(files, "reading")
  /\ UNCHANGED <<conversionRules, isRunning, fileWatcher, webServer, pc,
                 masterFile, loads, call>>

\* The file has been read as data: processInventoryData(data), then
\* saveProcessedData is awaited; an Error is caught and logged.
FileProcess(i, data) ==
  /\ call = NoCall
  /\ files[i] = "reading"
  /\ LET out == processInventoryData(conversionRules, data)
     IN  /\ call' = [op |-> "processInventoryFile", rules |-> conversionRules,
                     data |-> data, out |-> out]
         /\ files' = IF out.threw THEN Remove(files, i)
                     ELSE [files EXCEPT ![i] = "saving"]
  /\ UNCHANGED <<conversionRules, isRunning, fileWatcher, webServer, pc,
                 masterFile, loads>>

\* saveProcessedData has written the result; emit('fileProcessed').
FileSaved(i) ==
  /\ call = NoCall
  /\ files[i] = "saving"
  /\ files' = Remove(files, i)
  /\ UNCHANGED <<conversionRules, isRunning, fileWatcher, webServer, pc,
                 masterFile, loads, call>>

\* POST /webhook/inventory
Webhook(data) ==
  /\ call = NoCall
  /\ webServer
  /\ call' = [op |-> "webhook", rules |-> conversionRules, data |-> data,
              out |-> processInventoryData(conversionRules, data)]
  /\ UNCHANGED agent

\* POST /convert
ConvertEndpoint(items, targetUnit) ==
  /\ call = NoCall
  /\ webServer
  /\ call' = [op |-> "convertEndpoint", rules |-> conversionRules,
              items |-> items, targetUnit |-> targetUnit,
              out |-> convertUnits(conversionRules, items, targetUnit)]
  /\ UNCHANGED agent

\* Someone replaces, damages or removes the master file.
WriteMasterFile(content) ==
  /\ call = NoCall
  /\ masterFile # content
  /\ masterFile' = content
  /\ UNCHANGED <<conversionRules, isRunning, fileWatcher, webServer, pc,
                 loads, files, call>>

Next ==
  \/ Initialize
  \/ Reload
  \/ \E i \in 1..Len(loads) : LoadPathExists(i)
  \/ \E i \in 1..Len(loads) : LoadReadJson(i)
  \/ \E i \in 1..Len(loads) : LoadAssign(i)
  \/ SetupFileWatcher
  \/ SetupWebhookServer
  \/ Initialized
  \/ Stop
  \/ StopWatcherClosed
  \/ StopServerClosed
  \/ FileEvent
  \/ \E i \in 1..Len(files), data \in AgentDatas : FileProcess(i, data)
  \/ \E i \in 1..Len(files) : FileSaved(i)
  \/ \E data \in AgentDatas : Webhook(data)
  \/ \E items \in AgentBatches : ConvertEndpoint(items, "BOX")
  \/ \E data \in AgentDatas : CallProcessInventoryData(data)
  \/ \E q \in {120000}, f \in {"PIECE"}, t \in {"BOX", "PIECE"}, s \in {"SKU001"} :
       CallConvertUnit(q, f, t, s)
  \/ CallGetStatus
  \/ \E content \in {NoFile, Corrupt} \cup ReloadDocs : WriteMasterFile(content)
  \/ Deliver

Spec == Init /\ [][Next]_vars

(***************************************************************************)
(* Properties of the engine (checked under SpecEngine).                    *)
(***************************************************************************)
IsConvert == call.op = "convertUnit"

\* A convertUnit call on a loaded table, between distinct units.
IsDistinctConvert ==
  IsConvert /\ call.rules # NullTable /\ call.fromUnit # call.toUnit

HasKey(rules, fromUnit, toUnit) ==
  conversionKey(fromUnit, toUnit) \in DOMAIN rules.conversionRules

\* C1: on a loaded table, convertUnit between distinct units X and Y with no
\* key "X_TO_Y" fails with 'No conversion rule found' and returns no
\* quantity, whatever q and sku are and whatever other keys (Y_TO_X, X_TO_Z
\* and Z_TO_Y) the table has.
C1_MissingRuleFails ==
  (IsDistinctConvert /\ ~HasKey(call.rules, call.fromUnit, call.toUnit))
    => /\ call.out.threw
       /\ call.out.error = "No conversion rule found for " \o call.fromUnit
                             \o " to " \o call.toUnit
       /\ "value" \notin DOMAIN call.out

\* PIECE to CARTON on the table that has PIECE_TO_BOX and BOX_TO_CARTON, and
\* CARTON to BOX on the table that only has BOX_TO_CARTON.
C1_Witness ==
  /\ IsDistinctConvert
  /\ call.rules = DocC
  /\ call.out.threw
  /\ \/ /\ call.fromUnit = "PIECE" /\ call.toUnit = "CARTON"
        /\ HasKey(DocC, "PIECE", "BOX") /\ HasKey(DocC, "BOX", "CARTON")
     \/ /\ call.fromUnit = "CARTON" /\ call.toUnit = "BOX"
        /\ HasKey(DocC, "BOX", "CARTON")

\* The quantity convertUnit would return with factor f: none that is finite
\* when it divides by zero.
WithFactor(quantity, f, divides) ==
  IF divides
  THEN IF f = 0 THEN [finite |-> FALSE]
       ELSE [finite |-> TRUE, quantity |-> roundedQuotient(quantity, f)]
  ELSE [finite |-> TRUE, quantity |-> roundedProduct(quantity, f)]

\* C2: when the rule exists, a sku that is a key of the rule's products gets
\* the product-specific factor whatever its value, and a sku that is absent
\* from products (or no sku) gets the rule's default.
C2_OverridePrecedence ==
  (IsDistinctConvert /\ HasKey(call.rules, call.fromUnit, call.toUnit))
    => LET rule == call.rules.conversionRules[conversionKey(call.fromUnit, call.toUnit)]
           f == IF call.sku # "" /\ call.sku \in DOMAIN rule.products
                THEN rule.products[call.sku]
                ELSE rule.default
       IN  /\ ~call.out.threw
           /\ [finite |-> TRUE, quantity |-> call.out.value]
                = WithFactor(call.quantity, f,
                             dividing(call.rules.unitHierarchy, call.fromUnit,
                                      call.toUnit))

\* n/d rounded to the nearest integer, a tie going away from zero (d > 0).
RoundHalfAwayFromZero(n, d) ==
  IF n >= 0 THEN (2 * n + d) \div (2 * d) ELSE -((2 * (-n) + d) \div (2 * d))

\* C3: the value returned for distinct units is the unrounded result
\* (q / factor or q * factor) times 100, rounded half away from zero, over
\* 100, for positive, zero and negative q.
C3_RoundHalfAwayFromZero ==
  (IsDistinctConvert /\ HasKey(call.rules, call.fromUnit, call.toUnit))
    => LET rule == call.rules.conversionRules[conversionKey(call.fromUnit, call.toUnit)]
           f == conversionFactor(rule, call.sku)
       IN  /\ ~call.out.threw
           /\ call.out.value =
                IF dividing(call.rules.unitHierarchy, call.fromUnit, call.toUnit)
                THEN 10 * RoundHalfAwayFromZero(call.quantity, 10 * f)
                ELSE 10 * RoundHalfAwayFromZero(call.quantity * f, 10)

IsStandardized(v) == "standardizedUnits" \in DOMAIN v /\ "error" \notin DOMAIN v

IsErrorRecord(v, item) ==
  /\ "error" \in DOMAIN v
  /\ v = ErrorRecord(item, v.error)

\* C4: standardizeItem never throws: for every item, a null element of an
\* items array included, it returns a StandardizedItem or an ErrorRecord
\* (the item's fields plus an error message).
C4_StandardizeNeverThrows ==
  call.op = "standardizeItem"
    => /\ ~call.out.threw
       /\ \/ IsStandardized(call.out.value)
          \/ IsErrorRecord(call.out.value, call.item)

\* C5: on a loaded table, processInventoryData of an items array of N items
\* returns N entries in input order, entry i being the standardization of
\* item i alone, whatever the other items are.
C5_PerItemIsolation ==
  (/\ call.op = "processInventoryData"
   /\ call.rules # NullTable
   /\ call.data # NullData
   /\ call.data.itemsIsArray)
    => /\ ~call.out.threw
       /\ Len(call.out.value.items) = Len(call.data.items)
       /\ \A i \in 1..Len(call.data.items) :
            /\ ~standardizeItem(call.rules, call.data.items[i]).threw
            /\ call.out.value.items[i]
                 = standardizeItem(call.rules, call.data.items[i]).value

\* C6: with no table loaded, convertUnit, standardizeItem,
\* processInventoryData and convertUnits each fail instead of returning.
C6_TableNotLoadedFails ==
  (/\ call.op \in {"convertUnit", "standardizeItem", "processInventoryData",
                   "convertUnits"}
   /\ call.rules = NullTable)
    => call.out.threw

\* The first position of supportedUnits from i on whose conversion fails,
\* 0 when there is none.
RECURSIVE FirstFailure(_, _, _)
FirstFailure(rules, item, i) ==
  IF i > Len(rules.supportedUnits) THEN 0
  ELSE IF /\ rules.supportedUnits[i] # item.unit
          /\ convertUnit(rules, item.quantity, item.unit,
                         rules.supportedUnits[i], item.sku).threw
  THEN i
  ELSE FirstFailure(rules, item, i + 1)

\* C8: on a loaded table, a valid item's result is all-or-nothing: either
\* every unit of supportedUnits converts and standardizedUnits has exactly
\* those units, the item's own unit mapped to the original quantity and
\* every other unit u to convertUnit(quantity, unit, u, sku); or some unit
\* fails and the result is the item's fields plus the engine's message,
\* with no standardizedUnits.
C8_AllOrNothing ==
  (/\ call.op = "standardizeItem"
   /\ call.rules # NullTable
   /\ call.item # NullItem
   /\ ~missingFields(call.item))
    => LET item == call.item
           rules == call.rules
           k == FirstFailure(rules, item, 1)
           v == call.out.value
       IN  /\ ~call.out.threw
           /\ k = 0 =>
                /\ IsStandardized(v)
                /\ DOMAIN v.standardizedUnits = Range(rules.supportedUnits)
                /\ \A u \in Range(rules.supportedUnits) :
                     v.standardizedUnits[u] =
                       IF u = item.unit THEN item.quantity
                       ELSE convertUnit(rules, item.quantity, item.unit, u,
                                        item.sku).value
                /\ v.sku = item.sku
                /\ v.originalQuantity = item.quantity
                /\ v.originalUnit = item.unit
           /\ k # 0 =>
                /\ "standardizedUnits" \notin DOMAIN v
                /\ v = ErrorRecord(item,
                         convertUnit(rules, item.quantity, item.unit,
                                     rules.supportedUnits[k], item.sku).error)

\* PIECE on the sparse table: BOX converts, then CARTON has no rule.
C8_Witness ==
  /\ call.op = "standardizeItem"
  /\ call.rules = DocC
  /\ call.item # NullItem
  /\ ~missingFields(call.item)
  /\ call.item.unit = "PIECE"
  /\ FirstFailure(DocC, call.item, 1) = 3
  /\ "error" \in DOMAIN call.out.value

\* What one item of convertUnits does: the Error it raises, or its
\* converted quantity.
ItemConversion(rules, item, targetUnit) ==
  IF item = NullItem THEN Throw(NullRead("quantity"))
  ELSE convertUnit(rules, item.quantity, item.unit, targetUnit, item.sku)

\* C9: convertUnits fails as a whole, with the failure of the first failing
\* item and no converted items, as soon as one item fails at any position;
\* otherwise it returns one converted item per input item, in input order.
C9_NoIsolation ==
  call.op = "convertUnits"
    => LET items == call.items
           failing == {i \in 1..Len(items) :
                         ItemConversion(call.rules, items[i], call.targetUnit).threw}
       IN  /\ failing # {} =>
                /\ call.out.threw
                /\ "value" \notin DOMAIN call.out
                /\ \E i \in failing :
                     /\ \A j \in failing : i <= j
                     /\ call.out.error =
                          ItemConversion(call.rules, items[i], call.targetUnit).error
           /\ failing = {} =>
                /\ ~call.out.threw
                /\ Len(call.out.value) = Len(items)
                /\ \A i \in 1..Len(items) :
                     call.out.value[i] =
                       ConvertedItem(items[i],
                                     ItemConversion(call.rules, items[i],
                                                    call.targetUnit).value,
                                     call.targetUnit)

\* Two items, the first converts and the second has no rule: nothing comes
\* back for the first.
C9_Witness ==
  /\ call.op = "convertUnits"
  /\ call.rules # NullTable
  /\ Len(call.items) = 2
  /\ ~ItemConversion(call.rules, call.items[1], call.targetUnit).threw
  /\ ItemConversion(call.rules, call.items[2], call.targetUnit).threw
  /\ call.out.threw

\* C10: convertUnit(q, U, U, sku) returns exactly q for every unit, quantity
\* and sku: unrounded, and with no rule for U needed.
C10_Identity ==
  (IsConvert /\ call.fromUnit = call.toUnit)
    => /\ ~call.out.threw
       /\ call.out.value = call.quantity

\* 1.005 BOGUS to BOGUS with a sku, on a loaded table with no BOGUS rule.
C10_Witness ==
  /\ IsConvert
  /\ call.rules \in MasterDocs
  /\ call.fromUnit = "BOGUS" /\ call.toUnit = "BOGUS"
  /\ call.sku = "SKU001"
  /\ call.quantity = 1005
  /\ call.out = Return(1005)

\* The position of u in sequence h (u occurs in h).
Position(h, u) == CHOOSE i \in 1..Len(h) : h[i] = u /\ \A j \in 1..(i - 1) : h[j] # u

\* C11: between distinct units that are both in unitHierarchy and have a
\* rule, convertUnit returns quantity / factor (rounded) exactly when
\* fromUnit stands strictly before toUnit in unitHierarchy, and
\* quantity * factor (rounded) otherwise, whatever the order of
\* supportedUnits.
C11_DirectionFromHierarchy ==
  (/\ IsDistinctConvert
   /\ HasKey(call.rules, call.fromUnit, call.toUnit)
   /\ call.fromUnit \in Range(call.rules.unitHierarchy)
   /\ call.toUnit \in Range(call.rules.unitHierarchy))
    => LET rule == call.rules.conversionRules[conversionKey(call.fromUnit, call.toUnit)]
           f == conversionFactor(rule, call.sku)
           h == call.rules.unitHierarchy
       IN  /\ ~call.out.threw
           /\ call.out.value =
                IF Position(h, call.fromUnit) < Position(h, call.toUnit)
                THEN roundedQuotient(call.quantity, f)
                ELSE roundedProduct(call.quantity, f)

\* 24 PIECE to BOX on the table whose supportedUnits lists BOX before PIECE
\* and whose unitHierarchy lists PIECE before BOX: 24 / 8 = 3, not 192.
C11_Witness ==
  /\ IsDistinctConvert
  /\ call.rules = DocB
  /\ call.fromUnit = "PIECE" /\ call.toUnit = "BOX"
  /\ Position(DocB.supportedUnits, "BOX") < Position(DocB.supportedUnits, "PIECE")
  /\ call.sku = "UNKNOWN_SKU"
  /\ call.quantity = 24000
  /\ call.out = Return(3000)


\* C12: processInventoryData of an absent input, or of one whose items is
\* missing or not an array, fails with 'Invalid inventory data format'
\* whatever the table is and whatever items holds, and produces no result.
C12_MalformedInputRejected ==
  (/\ call.op = "processInventoryData"
   /\ \/ call.data = NullData
      \/ ~call.data.itemsIsArray)
    => /\ call.out.threw
       /\ call.out.error = "Invalid inventory data format. Expected { items: [] }"
       /\ "value" \notin DOMAIN call.out

\* An items field that is not an array and holds an element that would
\* standardize (or one that would throw) on a loaded table.
C12_Witness ==
  /\ call.op = "processInventoryData"
  /\ call.rules = DocA
  /\ call.data # NullData
  /\ ~call.data.itemsIsArray
  /\ Len(call.data.items) = 1
  /\ call.out.threw

\* A round trip from A up to B and back whose two rules resolve to one
\* factor and whose quotient q / f has at most two decimals.
IsExactRoundTrip ==
  /\ call.op = "roundTrip"
  /\ call.rules # NullTable
  /\ call.fromUnit # call.toUnit
  /\ call.fromUnit \in Range(call.rules.unitHierarchy)
  /\ call.toUnit \in Range(call.rules.unitHierarchy)
  /\ Position(call.rules.unitHierarchy, call.fromUnit)
       < Position(call.rules.unitHierarchy, call.toUnit)
  /\ HasKey(call.rules, call.fromUnit, call.toUnit)
  /\ HasKey(call.rules, call.toUnit, call.fromUnit)
  /\ LET up == call.rules.conversionRules[conversionKey(call.fromUnit, call.toUnit)]
         down == call.rules.conversionRules[conversionKey(call.toUnit, call.fromUnit)]
     IN  /\ conversionFactor(up, call.sku) = conversionFactor(down, call.sku)
         /\ call.quantity % (10 * conversionFactor(up, call.sku)) = 0

\* C13: for A ranked below B in unitHierarchy, rules A_TO_B and B_TO_A that
\* resolve to the same factor f, and q / f of at most two decimals,
\* convertUnit(convertUnit(q, A, B, sku), B, A, sku) returns q: within half
\* a hundredth, and exactly when q itself has at most two decimals.
C13_RoundTrip ==
  IsExactRoundTrip
    => /\ ~call.there.threw
       /\ ~call.out.threw
       /\ call.out.value - call.quantity <= 5
       /\ call.quantity - call.out.value <= 5
       /\ call.quantity % 10 = 0 => call.out.value = call.quantity

\* 120 PIECE to 12 BOX and back to 120 PIECE at SKU001's factor 10.
C13_Witness ==
  /\ IsExactRoundTrip
  /\ call.rules = DocA
  /\ call.fromUnit = "PIECE" /\ call.toUnit = "BOX"
  /\ call.sku = "SKU001"
  /\ call.quantity = 120000
  /\ call.there = Return(12000)
  /\ call.out = Return(120000)

\* A convertUnit call whose rule exists and whose fromUnit or toUnit is not
\* in unitHierarchy.
IsOffHierarchyConvert ==
  /\ IsDistinctConvert
  /\ HasKey(call.rules, call.fromUnit, call.toUnit)
  /\ \/ call.fromUnit \notin Range(call.rules.unitHierarchy)
     \/ call.toUnit \notin Range(call.rules.unitHierarchy)

\* C14: with a rule present and a unit absent from unitHierarchy,
\* convertUnit does not fail: it multiplies by the factor when toUnit is
\* absent (fromUnit absent or not) and divides by it when only fromUnit is
\* absent, at whatever position toUnit stands; the result is rounded.
C14_AbsentUnitDirection ==
  IsOffHierarchyConvert
    => LET rule == call.rules.conversionRules[conversionKey(call.fromUnit, call.toUnit)]
           f == conversionFactor(rule, call.sku)
       IN  /\ ~call.out.threw
           /\ call.out.value =
                IF call.toUnit \notin Range(call.rules.unitHierarchy)
                THEN roundedProduct(call.quantity, f)
                ELSE roundedQuotient(call.quantity, f)

\* 120 PALLET to PIECE, PALLET absent and PIECE first in the hierarchy:
\* 120 / 800 = 0.15.
C14_Witness ==
  /\ IsOffHierarchyConvert
  /\ call.rules = DocC
  /\ call.fromUnit = "PALLET" /\ call.toUnit = "PIECE"
  /\ Position(DocC.unitHierarchy, "PIECE") = 1
  /\ call.sku = "SKU001"
  /\ call.quantity = 120000
  /\ call.out = Return(150)

(***************************************************************************)
(* Properties of the agent (checked under Spec).                           *)
(***************************************************************************)
BatchOps == {"processInventoryData", "webhook", "processInventoryFile"}

\* C7: however reloads interleave with batches from the file watcher, the
\* webhook or a direct call, the table in place is always null or one whole
\* document, and every batch result is that of one document: each entry is
\* the standardization of its item under the document whose version is the
\* result's conversionVersion.
C7_OneTablePerBatch ==
  /\ conversionRules \in {NullTable} \cup MasterDocs
  /\ call.op \in BatchOps =>
       /\ call.rules \in {NullTable} \cup MasterDocs
       /\ ~call.out.threw =>
            \E D \in MasterDocs :
              /\ D.version = call.out.value.conversionVersion
              /\ Len(call.out.value.items) = Len(call.data.items)
              /\ \A i \in 1..Len(call.data.items) :
                   call.out.value.items[i]
                     = standardizeItem(D, call.data.items[i]).value

\* A batch from the watcher or the webhook completes on the table in place
\* while a reload holds another document it has read and not yet assigned.
C7_Witness ==
  /\ call.op \in {"webhook", "processInventoryFile"}
  /\ ~call.out.threw
  /\ call.rules # NullTable
  /\ \E i \in 1..Len(loads) :
       /\ loads[i].pc = "assign"
       /\ loads[i].caller = "reload"
       /\ loads[i].masterData # call.rules
  /\ \E i \in 1..Len(call.out.value.items) :
       IsStandardized(call.out.value.items[i])

\* The version a status query or a batch result reports for table t.
ReportedVersion(t) == IF t = NullTable THEN "undefined" ELSE t.version

====
